---- MODULE Spec2Model ----
(***************************************************************************)
(* btools.  Of git-watch (src/git-watch/src/main.rs) are modelled:         *)
(*   - the debounce coordinator of main(): the watcher callback (producer) *)
(*     and the consumer loop sharing work_trigger = (Mutex<usize>, Condvar)*)
(*     (specifications Spec and FairSpec);                                 *)
(*   - Cache::is_ignored, the bounded path -> verdict cache                *)
(*     (specifications SpecCache and FairSpecCache);                       *)
(*   - the watcher callback in full, with the consumer (SpecFilter).       *)
(* Of chop (src/chop/src/main.rs): Limiter::get_limit, get_end and run     *)
(* (specification SpecChop).                                               *)
(* Time is discrete: one Tick is one unit, the settle duration is Settle   *)
(* units.  Threads are scheduled arbitrarily: any amount of time may pass  *)
(* between two steps of a thread.                                          *)
(***************************************************************************)
EXTENDS Integers, Sequences, FiniteSets, TLC

\* ---------------------------------------------------------------- bounds
\* settle duration (config.settle) in ticks
Settle == 2
\* number of actionable events the watcher delivers in one run
MaxEvents == 3
\* number of spurious wake-ups of the condition variable in one run
MaxSpurious == 1
\* paths the watcher reports are 1..NumPaths
NumPaths == 3
\* config.size ranges over 0..MaxSize
MaxSize == 2
\* config.age ranges over 1..MaxAge ticks
MaxAge == 1
\* the cache's clock (Instant::now) runs from 0 to MaxClock
MaxClock == 2
\* number of Cache::is_ignored calls in one run
MaxQueries == 4
\* number of paths in one event delivered to the watcher callback
MaxEventPaths == 2
\* number of paths the watcher callback finds actionable in one run
MaxActionable == 2
\* chop: an input line has at most MaxLineLen graphemes
MaxLineLen == 3
\* chop: --columns and the terminal's width range over 0..MaxColumns
MaxColumns == 3
\* chop: --multiple ranges over 0..MaxMultiple
MaxMultiple == 2
\* chop: --offset ranges over 0..MaxOffset
MaxOffset == 2
\* chop: number of chunks written for one line
MaxChunks == 3
\* chop: the system clock runs from 1 to MaxChopClock seconds
MaxChopClock == 2
\* chop: width of usize in bits
UsizeBits == 7

VARIABLES
    \* ---- debounce coordinator (main)
    counter,      \* the usize inside work_trigger.0
    lock,         \* who holds work_trigger.0: "free" or "consumer"
    prev,         \* consumer's local prev
    pc,           \* consumer's position in main
    timedOut,     \* settle_check.1.timed_out() of the wait_timeout that returned
    timer,        \* ticks elapsed in the current wait_timeout
    ppc,          \* watcher callback's position
    oneshot,      \* config.oneshot
    cmdExists,    \* whether config.command[0] can be spawned
    spurious,     \* spurious wake-ups so far
    \* ---- history of the run (observations, never read by the program)
    fireLog,      \* value of counter at each call of run_command
    sinceInc,     \* ticks since the last increment (saturates at Settle + 1)
    burst,        \* every increment followed the previous one by < Settle ticks
    apart,        \* every increment followed the previous one by > Settle ticks
    late,         \* time has passed while a thread had a step it could take
    incInWindow,  \* an increment happened inside the current settle window
    lostAtStart,  \* increments made before the consumer's first wait
    nonzero,      \* some run of the command has exited with a nonzero code
    \* ---- Cache
    size,            \* config.size
    age,             \* config.age, in ticks
    filenames,       \* HashMap<PathBuf, bool>: path -> is_ignored
    eviction_times,  \* VecDeque<CacheMeta>, front first
    clock,           \* Instant::now()
    cpc,             \* position inside Cache::is_ignored ("idle": not in a call)
    qpath,           \* the path argument of the call
    now,             \* the local now of the call (line 68)
    ret,             \* value returned by the last call
    \* ---- history of the cache (observations, never read by the program)
    served,          \* how the last call was answered: "cache" or "oracle"
    queries,         \* number of calls so far
    calls,           \* per path: number of oracle invocations
    first,           \* per path: time and verdict of its first query
    fresh,           \* per path: every query so far came within age of the first
    same,            \* per path: every query so far returned the first verdict
    iter,            \* parity of the capacity loop's iterations in this call
    firstPath,       \* the path of the first call (0: no call yet)
    \* ---- watcher callback (the closure given to recommended_watcher)
    pending,         \* what is_ignored will do for the paths of event.paths
                     \* the for loop has not reached yet
    \* ---- history of the callback (observations, never read by the program)
    expected,        \* paths of write-complete events reported not ignored
    discarded,       \* an event or a path has been filtered out
    \* ---- chop: Config and the build
    wrap,            \* config.wrap.unwrap_or(false)
    columns,         \* config.columns (None: no --columns)
    delimiter,       \* config.delimiter (NoDelimiter: no --delimiter)
    multiple,        \* config.multiple (None: no --multiple)
    offset,          \* config.offset (None: no --offset)
    debug,           \* the build checks integer overflow (debug assertions)
    \* ---- chop: Limiter and run
    tc_value,        \* limiter.cache.value
    tc_prev,         \* limiter.cache.prev_timestamp, seconds since UNIX_EPOCH
    hclock,          \* SystemTime::now(), seconds since UNIX_EPOCH
    s,               \* the rest of the line in run's while loop
    hpc,             \* position of run
    \* ---- chop: history (observations, never read by the program)
    limit,           \* value returned by the last get_limit
    deflt,           \* the local `default` of the last get_limit
    before,          \* s at the start of the last iteration
    chunk,           \* the last chunk written
    nchunks          \* chunks written for the current line

dvars == <<counter, lock, prev, pc, timedOut, timer, ppc, oneshot, cmdExists,
           spurious, fireLog, sinceInc, burst, apart, late, incInWindow,
           lostAtStart, nonzero>>

cvars == <<size, age, filenames, eviction_times, clock, cpc, qpath, now, ret,
           served, queries, calls, first, fresh, same, iter, firstPath>>

fvars == <<pending, expected, discarded>>

hvars == <<wrap, columns, delimiter, multiple, offset, debug, tc_value,
           tc_prev, hclock, s, hpc, limit, deflt, before, chunk, nchunks>>

vars == <<dvars, cvars, fvars, hvars>>

Min(a, b) == IF a < b THEN a ELSE b

Paths == 1..NumPaths

\* no query of the path yet
NoQuery == [time |-> -1, verdict |-> FALSE]

\* number of run_command calls so far
fires == Len(fireLog)

\* ------------------------------------------------------------ the program

\* line 232: if prev != *curr
NeedsTriggerAlways(p, c) == TRUE
NeedsTrigger(p, c) == p # c

\* Condvar::notify_one (line 211) and a spurious wake-up: a thread blocked in
\* wait / wait_timeout leaves the wait and goes on to re-acquire the mutex;
\* with no thread waiting the notification is dropped.
NotifyOne(p) ==
    IF p = "wait" THEN "wait_relock"
    ELSE IF p = "settle" THEN "settle_relock"
    ELSE p

\* lines 229-244: the guard curr is alive across run_command
GuardReleased == "free"
GuardDuringCommand == "consumer"

\* line 238: wait_timeout reports a timeout once the duration has elapsed
TimeoutElapsed(t) == t >= Settle

DStart ==
    /\ counter = 0
    /\ lock = "free"
    /\ prev = 0
    /\ pc = "start"
    /\ timedOut = FALSE
    /\ timer = 0
    /\ ppc = "idle"
    /\ spurious = 0
    /\ fireLog = <<>>
    /\ sinceInc = 0
    /\ burst = TRUE
    /\ apart = TRUE
    /\ late = FALSE
    /\ incInWindow = FALSE
    /\ lostAtStart = 0
    /\ nonzero = FALSE

\* Cache::new, lines 55-61
CStart ==
    /\ filenames = <<>>
    /\ eviction_times = <<>>
    /\ clock = 0
    /\ cpc = "idle"
    /\ qpath = 1
    /\ now = 0
    /\ ret = FALSE
    /\ served = "none"
    /\ queries = 0
    /\ calls = [p \in Paths |-> 0]
    /\ first = [p \in Paths |-> NoQuery]
    /\ fresh = [p \in Paths |-> TRUE]
    /\ same = [p \in Paths |-> TRUE]
    /\ iter = 0
    /\ firstPath = 0

\* no event has been delivered to the callback
FStart ==
    /\ pending = <<>>
    /\ expected = 0
    /\ discarded = FALSE

\* Option::None of a usize option
None == 0 - 1

\* no --delimiter
NoDelimiter == "None"

\* chop: Limiter::new (lines 74-81, TimedCache::new lines 40-46) and the start
\* of run (line 147); the clock reads some time after UNIX_EPOCH
HRun ==
    /\ tc_value = 0
    /\ tc_prev = 0
    /\ hclock = 1
    /\ s = <<>>
    /\ hpc = "read"
    /\ limit = 0
    /\ deflt = 0
    /\ before = <<>>
    /\ chunk = <<>>
    /\ nchunks = 0

\* chop with Config::default()
HStart ==
    /\ HRun
    /\ wrap = FALSE
    /\ columns = None
    /\ delimiter = NoDelimiter
    /\ multiple = None
    /\ offset = None
    /\ debug = FALSE

\* the debounce coordinator at the start of main; the cache is left aside
Init ==
    /\ DStart
    /\ oneshot \in BOOLEAN
    /\ cmdExists \in BOOLEAN
    /\ CStart
    /\ size = 1
    /\ age = 1
    /\ FStart
    /\ HStart

\* main has not returned and the process has not aborted: the watcher (and its
\* callback thread) is alive
Running == pc \notin {"done", "failed", "aborted"}

\* ---- producer: the watcher callback, lines 194-216, for one actionable path

\* line 209: cache.is_actionable(path) returned true; the callback is about to
\* lock the mutex
ActionableEvent ==
    /\ Running
    /\ ppc = "idle"
    /\ counter < MaxEvents
    /\ ppc' = "lock"
    /\ UNCHANGED <<counter, lock, prev, pc, timedOut, timer, oneshot, cmdExists,
                   spurious, fireLog, sinceInc, burst, apart, late, incInWindow, lostAtStart>>
    /\ UNCHANGED cvars
    /\ UNCHANGED <<nonzero, fvars>>
    /\ UNCHANGED hvars

\* line 210: (*work_trigger2.0.lock().unwrap()) += 1;  the temporary guard is
\* dropped at the end of the statement, so the mutex is released here
ProducerIncrement ==
    /\ Running
    /\ ppc = "lock"
    /\ lock = "free"
    /\ counter' = counter + 1
    /\ ppc' = "notify"
    /\ sinceInc' = 0
    /\ burst' = (burst /\ (counter >= 1 => sinceInc < Settle))
    /\ apart' = (apart /\ (counter >= 1 => sinceInc > Settle))
    /\ incInWindow' = (incInWindow \/ (pc = "settle" /\ ~TimeoutElapsed(timer)))
    /\ lostAtStart' = IF pc = "start" THEN lostAtStart + 1 ELSE lostAtStart
    /\ UNCHANGED <<lock, prev, pc, timedOut, timer, oneshot, cmdExists,
                   spurious, fireLog, late>>
    /\ UNCHANGED cvars
    /\ UNCHANGED <<nonzero, fvars>>
    /\ UNCHANGED hvars

\* line 211: work_trigger2.1.notify_one(), the mutex is not held
ProducerNotify ==
    /\ Running
    /\ ppc = "notify"
    /\ pc' = NotifyOne(pc)
    /\ timedOut' = IF pc = "settle" THEN FALSE ELSE timedOut
    /\ ppc' = "idle"
    /\ UNCHANGED <<counter, lock, prev, timer, oneshot, cmdExists, spurious,
                   fireLog, sinceInc, burst, apart, late, incInWindow, lostAtStart>>
    /\ UNCHANGED cvars
    /\ UNCHANGED <<nonzero, fvars>>
    /\ UNCHANGED hvars

\* ---- consumer: main, lines 227-253

\* lines 228-231, first pass: prev = 0, lock the mutex, cond.wait releases it
ConsumerStart ==
    /\ pc = "start"
    /\ lock = "free"
    /\ prev' = 0
    /\ pc' = "wait"
    /\ UNCHANGED <<counter, lock, timedOut, timer, ppc, oneshot, cmdExists,
                   spurious, fireLog, sinceInc, burst, apart, late, incInWindow, lostAtStart>>
    /\ UNCHANGED cvars
    /\ UNCHANGED <<nonzero, fvars>>
    /\ UNCHANGED hvars

\* Condvar::wait and wait_timeout may return without a notification
SpuriousWake ==
    /\ pc \in {"wait", "settle"}
    /\ spurious < MaxSpurious
    /\ spurious' = spurious + 1
    /\ pc' = NotifyOne(pc)
    /\ timedOut' = IF pc = "settle" THEN FALSE ELSE timedOut
    /\ UNCHANGED <<counter, lock, prev, timer, ppc, oneshot, cmdExists,
                   fireLog, sinceInc, burst, apart, late, incInWindow, lostAtStart>>
    /\ UNCHANGED cvars
    /\ UNCHANGED <<nonzero, fvars>>
    /\ UNCHANGED hvars

\* lines 231-250: cond.wait re-acquires the mutex and returns; then either the
\* settle loop begins (wait_timeout releases the mutex again), or prev = *curr
\* and the loop goes round (or ends, in one-shot mode)
WaitReturn ==
    /\ pc = "wait_relock"
    /\ lock = "free"
    /\ IF NeedsTrigger(prev, counter)
       THEN /\ pc' = "settle"
            /\ timer' = 0
            /\ incInWindow' = FALSE
            /\ prev' = prev
       ELSE /\ prev' = counter
            /\ pc' = IF oneshot THEN "done" ELSE "wait"
            /\ UNCHANGED <<timer, incInWindow>>
    /\ UNCHANGED <<counter, lock, timedOut, ppc, oneshot, cmdExists, spurious,
                   fireLog, sinceInc, burst, apart, late, lostAtStart>>
    /\ UNCHANGED cvars
    /\ UNCHANGED <<nonzero, fvars>>
    /\ UNCHANGED hvars

\* lines 234-236: the timeout of wait_timeout elapses
SettleTimeout ==
    /\ pc = "settle"
    /\ TimeoutElapsed(timer)
    /\ pc' = "settle_relock"
    /\ timedOut' = TRUE
    /\ UNCHANGED <<counter, lock, prev, timer, ppc, oneshot, cmdExists, spurious,
                   fireLog, sinceInc, burst, apart, late, incInWindow, lostAtStart>>
    /\ UNCHANGED cvars
    /\ UNCHANGED <<nonzero, fvars>>
    /\ UNCHANGED hvars

\* lines 237-244: wait_timeout re-acquires the mutex and returns; on a timeout
\* the settle loop breaks and run_command is called with the mutex held,
\* otherwise the next wait_timeout starts
SettleReturn ==
    /\ pc = "settle_relock"
    /\ lock = "free"
    /\ IF timedOut
       THEN /\ pc' = "running"
            /\ lock' = GuardDuringCommand
            /\ fireLog' = Append(fireLog, counter)
            /\ UNCHANGED <<timer, incInWindow>>
       ELSE /\ pc' = "settle"
            /\ timer' = 0
            /\ incInWindow' = FALSE
            /\ UNCHANGED <<lock, fireLog>>
    /\ UNCHANGED <<counter, prev, timedOut, ppc, oneshot, cmdExists, spurious,
                   sinceInc, burst, apart, late, lostAtStart>>
    /\ UNCHANGED cvars
    /\ UNCHANGED <<nonzero, fvars>>
    /\ UNCHANGED hvars

\* exit codes of the command: success and one failure
ExitCodes == {0, 1}

\* lines 145-167: the Result of run_command.  A spawn error is Err("command
\* not found"); a command that ran gives Ok(()) whatever its exit code
run_command_strict(exists, code) == IF exists /\ code = 0 THEN "Ok" ELSE "Err"
run_command(exists, code) == IF exists THEN "Ok" ELSE "Err"

\* lines 244-250: `?` leaves main on Err; on Ok the loop breaks in one-shot
\* mode and goes round to cond.wait otherwise
AfterCommandAlways(result, once) == IF once THEN "done" ELSE "wait"
AfterCommand(result, once) ==
    IF result = "Err" THEN "failed" ELSE IF once THEN "done" ELSE "wait"

\* lines 145-167 and 244-251: run_command returns with the command's exit code
\* (a command that could not be spawned has none); prev = *curr is reached on
\* Ok only; the guard curr is dropped on every way out
CommandReturn ==
    /\ pc = "running"
    /\ \E code \in ExitCodes :
          LET result == run_command(cmdExists, code) IN
          /\ pc' = AfterCommand(result, oneshot)
          /\ prev' = IF result = "Ok" THEN counter ELSE prev
          /\ nonzero' = (nonzero \/ (cmdExists /\ code # 0))
    /\ lock' = "free"
    /\ UNCHANGED <<counter, timedOut, timer, ppc, oneshot, cmdExists, spurious,
                   fireLog, sinceInc, burst, apart, late, incInWindow, lostAtStart>>
    /\ UNCHANGED cvars
    /\ UNCHANGED fvars
    /\ UNCHANGED hvars

\* a thread has a step it can take now: the consumer is starting or has left
\* a wait (or its timeout has elapsed), or the callback is between the event
\* and its notify_one and not blocked on the mutex
StepPending ==
    \/ pc \in {"start", "wait_relock", "settle_relock"}
    \/ pc = "settle" /\ TimeoutElapsed(timer)
    \/ ppc = "notify"
    \/ ppc = "lock" /\ lock = "free"

\* ---- time
Tick ==
    /\ Running
    /\ late' = (late \/ StepPending)
    /\ timer' = IF pc = "settle" THEN Min(timer + 1, Settle) ELSE timer
    /\ sinceInc' = Min(sinceInc + 1, Settle + 1)
    /\ UNCHANGED <<counter, lock, prev, pc, timedOut, ppc, oneshot, cmdExists,
                   spurious, fireLog, burst, apart, incInWindow, lostAtStart>>
    /\ UNCHANGED cvars
    /\ UNCHANGED <<nonzero, fvars>>
    /\ UNCHANGED hvars

Next ==
    \/ ActionableEvent
    \/ ProducerIncrement
    \/ ProducerNotify
    \/ ConsumerStart
    \/ SpuriousWake
    \/ WaitReturn
    \/ SettleTimeout
    \/ SettleReturn
    \/ CommandReturn
    \/ Tick

Spec == Init /\ [][Next]_vars

\* The threads keep running, time passes and the command returns; the watcher
\* is under no obligation to deliver events, nor the condition variable to
\* wake spuriously.
Fairness ==
    /\ WF_vars(ProducerIncrement)
    /\ WF_vars(ProducerNotify)
    /\ WF_vars(ConsumerStart)
    /\ WF_vars(WaitReturn)
    /\ WF_vars(SettleTimeout)
    /\ WF_vars(SettleReturn)
    /\ WF_vars(CommandReturn)
    /\ WF_vars(Tick)

FairSpec == Spec /\ Fairness

\* ------------------------------------------------------ debounce: claims

\* the run is at rest: the consumer is blocked in cond.wait (line 231) and the
\* callback is idle, so nothing happens until the next event
AtRest == pc = "wait" /\ ppc = "idle"

\* C1 (Coalescing): when every increment so far followed the previous one by
\* less than the settle duration (one burst of N >= 1 events), the command
\* exists, no thread let time pass before a step it could take, and the run
\* has come to rest, the command has been fired exactly once.
C1_Coalescing ==
    (AtRest /\ cmdExists /\ ~late /\ counter >= 1 /\ burst) => fires = 1

\* C2 (no actionable event is lost): every increment made after the consumer
\* entered its loop (in its blocking wait, in a settle window or while the
\* command runs) is eventually followed by a call of run_command that starts
\* after the increment, provided the command can be spawned.
C2_NoEventLost ==
    \A k \in 1..MaxEvents :
        (cmdExists /\ counter >= k /\ k > lostAtStart)
            ~> (fires >= 1 /\ fireLog[fires] >= k)

\* an increment waited for the mutex while the command ran, and a later
\* trigger covered it
C2_Witness ==
    /\ cmdExists /\ ~oneshot /\ lostAtStart = 0
    /\ fires = 2 /\ fireLog[1] = 1 /\ fireLog[2] = 2
    /\ pc = "wait" /\ prev = counter

\* C3 (startup race): when the first increment was made before the consumer's
\* first wait, the consumer is not left blocked in cond.wait with the counter
\* different from its baseline and no notification on its way: it detects the
\* increment without a further event.
C3_StartupRaceDetected ==
    ~(lostAtStart >= 1 /\ AtRest /\ prev # counter)

\* C4 (the producer never blocks): whenever the callback is about to lock the
\* mutex for its increment, the mutex is free.
C4_ProducerNeverBlocks ==
    ppc = "lock" => lock = "free"

\* C5 (one-shot): in one-shot mode the command is never fired twice, and the
\* loop ends (break, line 249) only after it has fired once.
C5_OneShotFiresOnce ==
    oneshot => (fires <= 1 /\ (pc = "done" => fires = 1))

\* C6 (true debounce): when the command is fired, no increment was made inside
\* the settle window (the last wait_timeout) that precedes the trigger.
C6_TrueDebounce ==
    pc = "running" => ~incInWindow

\* C7 (no coalescing across gaps): two events more than the settle duration
\* apart have produced two triggers once the run is at rest (continuous mode,
\* command exists, no thread let time pass before a step it could take).
C7_NoCoalescingAcrossGaps ==
    (AtRest /\ cmdExists /\ ~oneshot /\ ~late /\ counter = 2 /\ apart)
        => fires = 2

\* C8 (at most one trigger per quiet period): run_command is called only with
\* the counter different from prev; once it has returned, prev has caught up
\* with the counter value of that trigger; the counter values of consecutive
\* triggers strictly increase, so the triggers never outnumber the increments.
C8_AtMostOneTriggerPerQuietPeriod ==
    /\ prev <= counter
    /\ pc = "running" => (prev # counter /\ fireLog[fires] = counter)
    /\ (fires >= 1 /\ pc \notin {"running", "failed"}) => prev >= fireLog[fires]
    /\ \A i \in 1..fires : fireLog[i] >= 1
    /\ \A i \in 1..(fires - 1) : fireLog[i] < fireLog[i + 1]
    /\ fires <= counter

\* two triggers, the second one for a coalesced burst, and the consumer back
\* in its wait with prev equal to the counter
C8_Witness ==
    /\ fires = 2 /\ counter = 3 /\ fireLog[2] = 3
    /\ pc = "wait" /\ prev = counter

\* C23 (producer protocol order): notify_one is issued while the producer
\* still holds the mutex it incremented under, so between an increment and its
\* notification the consumer never holds the mutex (it cannot have taken a
\* step that needs it).
C23_NotifyUnderLock == ppc = "notify" => lock # "consumer"

\* ------------------------------------------------------------------ Cache
\* Cache::is_ignored, lines 67-126, one action per loop iteration and per
\* return.  The clock stands still during a call: now is read once (line 68)
\* and the call reads the time nowhere else.

\* line 71: while self.eviction_times.len() >= self.config.size
CapacityReachedLate(len, sz) == len > sz
CapacityReached(len, sz) == len >= sz

\* line 80: cache_meta.eviction_time < now
StaleLate(et, n) == et + 1 < n
Stale(et, n) == et < n

\* line 115: now + Duration::from_secs_f32(self.config.age)
EvictionTime(n, a) == n + a

\* HashMap::remove, lines 73 and 81
RemoveNothing(map, p) == map
Remove(map, p) == [x \in (DOMAIN map) \ {p} |-> map[x]]

\* HashMap::insert, line 113
Insert(map, p, v) == [x \in (DOMAIN map) \cup {p} |-> IF x = p THEN v ELSE map[x]]

\* what a call that returns v for qpath adds to the history
Observe(v) ==
    /\ first' = [first EXCEPT ![qpath] =
                    IF @ = NoQuery THEN [time |-> now, verdict |-> v] ELSE @]
    /\ fresh' = [fresh EXCEPT ![qpath] =
                    @ /\ (first[qpath] = NoQuery \/ now < first[qpath].time + age)]
    /\ same' = [same EXCEPT ![qpath] =
                    @ /\ (first[qpath] = NoQuery \/ v = first[qpath].verdict)]

CacheInit ==
    /\ CStart
    /\ size \in 0..MaxSize
    /\ age \in 1..MaxAge
    /\ DStart
    /\ oneshot = FALSE
    /\ cmdExists = TRUE
    /\ FStart
    /\ HStart

\* lines 63-68: is_actionable(path) calls is_ignored(path), which reads the time.
\* The code treats all paths alike, so the paths are numbered in the order of
\* their first query: p is a path queried before or the next new one.
Query(p) ==
    /\ cpc = "idle"
    /\ queries < MaxQueries
    /\ p <= Cardinality({q \in Paths : first[q] # NoQuery}) + 1
    /\ queries' = queries + 1
    /\ qpath' = p
    /\ now' = clock
    /\ cpc' = "cap"
    /\ UNCHANGED <<size, age, filenames, eviction_times, clock, ret, served,
                   calls, first, fresh, same>>
    /\ firstPath' = IF firstPath = 0 THEN p ELSE firstPath
    /\ UNCHANGED iter
    /\ UNCHANGED dvars
    /\ UNCHANGED fvars
    /\ UNCHANGED hvars

\* lines 71-75: one iteration of the capacity loop; pop_front of an empty
\* deque is None and the body does nothing
CapEvict ==
    /\ cpc = "cap"
    /\ CapacityReached(Len(eviction_times), size)
    /\ IF eviction_times # <<>>
       THEN /\ filenames' = Remove(filenames, Head(eviction_times).path)
            /\ eviction_times' = Tail(eviction_times)
       ELSE UNCHANGED <<filenames, eviction_times>>
    /\ UNCHANGED <<size, age, clock, cpc, qpath, now, ret, served, queries,
                   calls, first, fresh, same>>
    /\ iter' = 1 - iter
    /\ UNCHANGED firstPath
    /\ UNCHANGED dvars
    /\ UNCHANGED fvars
    /\ UNCHANGED hvars

\* line 71: the loop condition is false
CapExit ==
    /\ cpc = "cap"
    /\ ~CapacityReached(Len(eviction_times), size)
    /\ cpc' = "age"
    /\ UNCHANGED <<size, age, filenames, eviction_times, clock, qpath, now, ret,
                   served, queries, calls, first, fresh, same>>
    /\ iter' = 0
    /\ UNCHANGED firstPath
    /\ UNCHANGED dvars
    /\ UNCHANGED fvars
    /\ UNCHANGED hvars

\* the front entry exists and is too old (lines 79-80)
FrontStale ==
    /\ eviction_times # <<>>
    /\ Stale(Head(eviction_times).eviction_time, now)

\* lines 78-85: one iteration of the age loop that evicts the front
AgeEvict ==
    /\ cpc = "age"
    /\ FrontStale
    /\ filenames' = Remove(filenames, Head(eviction_times).path)
    /\ eviction_times' = Tail(eviction_times)
    /\ UNCHANGED <<size, age, clock, cpc, qpath, now, ret, served, queries,
                   calls, first, fresh, same>>
    /\ UNCHANGED <<iter, firstPath>>
    /\ UNCHANGED dvars
    /\ UNCHANGED fvars
    /\ UNCHANGED hvars

\* lines 87-98: the age loop breaks and the path is in the map: return the
\* cached value
CacheHit ==
    /\ cpc = "age"
    /\ ~FrontStale
    /\ qpath \in DOMAIN filenames
    /\ ret' = filenames[qpath]
    /\ served' = "cache"
    /\ cpc' = "idle"
    /\ Observe(filenames[qpath])
    /\ UNCHANGED <<size, age, filenames, eviction_times, clock, qpath, now,
                   queries, calls>>
    /\ UNCHANGED <<iter, firstPath>>
    /\ UNCHANGED dvars
    /\ UNCHANGED fvars
    /\ UNCHANGED hvars

\* lines 87-125: the age loop breaks and the path is not in the map: git
\* check-ignore answers v, the answer is stored and returned
CacheMiss(v) ==
    /\ cpc = "age"
    /\ ~FrontStale
    /\ qpath \notin DOMAIN filenames
    /\ calls' = [calls EXCEPT ![qpath] = @ + 1]
    /\ filenames' = Insert(filenames, qpath, v)
    /\ eviction_times' = Append(eviction_times,
                                [eviction_time |-> EvictionTime(now, age),
                                 path |-> qpath])
    /\ ret' = v
    /\ served' = "oracle"
    /\ cpc' = "idle"
    /\ Observe(v)
    /\ UNCHANGED <<size, age, clock, qpath, now, queries>>
    /\ UNCHANGED <<iter, firstPath>>
    /\ UNCHANGED dvars
    /\ UNCHANGED fvars
    /\ UNCHANGED hvars

\* time passes between two calls
CacheTick ==
    /\ cpc = "idle"
    /\ clock < MaxClock
    /\ clock' = clock + 1
    /\ UNCHANGED <<size, age, filenames, eviction_times, cpc, qpath, now, ret,
                   served, queries, calls, first, fresh, same>>
    /\ UNCHANGED <<iter, firstPath>>
    /\ UNCHANGED dvars
    /\ UNCHANGED fvars
    /\ UNCHANGED hvars

CacheNext ==
    \/ \E p \in Paths : Query(p)
    \/ CapEvict
    \/ CapExit
    \/ AgeEvict
    \/ CacheHit
    \/ \E v \in BOOLEAN : CacheMiss(v)
    \/ CacheTick

SpecCache == CacheInit /\ [][CacheNext]_vars

\* a call of is_ignored keeps executing
CacheFairness ==
    /\ WF_vars(CapEvict)
    /\ WF_vars(CapExit)
    /\ WF_vars(AgeEvict)
    /\ WF_vars(CacheHit)
    /\ WF_vars(\E v \in BOOLEAN : CacheMiss(v))

FairSpecCache == SpecCache /\ CacheFairness

\* --------------------------------------------------------- Cache: claims

\* the paths queried so far
Queried == {p \in Paths : first[p] # NoQuery}

\* C9 (idempotence): with max size K >= 1 and no more than K distinct paths
\* queried, a path whose queries all came within max age of its first query got
\* the first verdict every time and the oracle was invoked once for it.
C9_Idempotence ==
    \A p \in Queried :
        (size >= 1 /\ Cardinality(Queried) <= size /\ fresh[p])
            => (calls[p] = 1 /\ same[p])

\* C10 (zero-size cache): with max size 0 every call returns, answered by the
\* oracle, and no call is answered from the cache.
C10_ZeroSizeCache ==
    /\ (size = 0 /\ cpc # "idle") ~> (cpc = "idle" /\ served = "oracle")
    /\ [](size = 0 => served # "cache")

\* the paths held by the eviction sequence
SeqPaths == {eviction_times[i].path : i \in 1..Len(eviction_times)}

\* every call so far was made within max age of the first call
AllWithinAge == firstPath # 0 /\ first[firstPath] # NoQuery
                /\ clock < first[firstPath].time + age

\* C11 (capacity eviction): with max size K >= 1 and all calls within max age,
\* once K+1 distinct paths have been queried (one call each) the first-inserted
\* path alone has been evicted and the K others are cached; a following call
\* for the evicted path invokes the oracle a second time.
C11_CapacityEviction ==
    (size >= 1 /\ cpc = "idle" /\ AllWithinAge) =>
        /\ (queries = size + 1 /\ Cardinality(Queried) = size + 1) =>
              /\ SeqPaths = Queried \ {firstPath}
              /\ DOMAIN filenames = Queried \ {firstPath}
              /\ Len(eviction_times) = size
        /\ (queries = size + 2 /\ Cardinality(Queried) = size + 1
                /\ qpath = firstPath) =>
              /\ served = "oracle"
              /\ calls[firstPath] = 2

\* K = 2: paths a, b, c were queried, a was evicted, and the call for a that
\* followed went to the oracle
C11_Witness ==
    /\ size = 2 /\ cpc = "idle" /\ AllWithinAge
    /\ queries = 4 /\ Cardinality(Queried) = 3
    /\ qpath = firstPath /\ calls[firstPath] = 2

\* C12, as stated (age eviction): after a call at time now no entry with
\* insertedAt + maxAge <= now is left in the cache, so a verdict answered from
\* the cache comes from an entry with insertedAt + maxAge > now.
C12_AgeEviction ==
    (cpc = "idle" /\ queries >= 1) =>
        /\ \A i \in 1..Len(eviction_times) : eviction_times[i].eviction_time > now
        /\ DOMAIN filenames = SeqPaths

\* C12, amended: after a call at time now no entry with insertedAt + maxAge <
\* now is left in the cache (an entry with insertedAt + maxAge = now is kept
\* and answers the call); every older entry was evicted before the lookup, so
\* its path went to the oracle again.
C12_AgeEvictionStrict ==
    (cpc = "idle" /\ queries >= 1) =>
        /\ \A i \in 1..Len(eviction_times) : eviction_times[i].eviction_time >= now
        /\ DOMAIN filenames = SeqPaths
        /\ served = "cache" =>
              \E i \in 1..Len(eviction_times) :
                  /\ eviction_times[i].path = qpath
                  /\ eviction_times[i].eviction_time >= now

\* a path queried at 0 with age 1 and again at 2 (size 2, so the capacity loop
\* leaves it alone): the entry was too old, the oracle was asked again
C12_Witness ==
    /\ cpc = "idle" /\ size = 2 /\ queries = 2
    /\ first[qpath].time = 0 /\ now = 2 /\ age = 1
    /\ served = "oracle" /\ calls[qpath] = 2

\* C13 (capacity invariant): with max size K >= 1, whenever a call has
\* returned, the eviction sequence and the map hold at most K entries each.
C13_CapacityInvariant ==
    (size >= 1 /\ cpc = "idle") =>
        /\ Len(eviction_times) <= size
        /\ Cardinality(DOMAIN filenames) <= size

\* the cache is full after more distinct paths than it can hold
C13_Witness ==
    /\ size = 2 /\ cpc = "idle" /\ Cardinality(Queried) = 3
    /\ Len(eviction_times) = 2 /\ Cardinality(DOMAIN filenames) = 2

\* C14 (uniqueness invariant): each path occurs at most once in the eviction
\* sequence, the paths of the sequence are the keys of the map, and the
\* sequence is ordered by non-decreasing expiry time from front to back.
C14_UniquenessInvariant ==
    /\ \A i, j \in 1..Len(eviction_times) :
          eviction_times[i].path = eviction_times[j].path => i = j
    /\ SeqPaths = DOMAIN filenames
    /\ \A i \in 1..(Len(eviction_times) - 1) :
          eviction_times[i].eviction_time <= eviction_times[i + 1].eviction_time

\* two entries with different expiry times, after a path was evicted and
\* inserted again
C14_Witness ==
    /\ Len(eviction_times) = 2
    /\ eviction_times[1].eviction_time < eviction_times[2].eviction_time
    /\ cpc = "idle"
    /\ \E p \in Paths : calls[p] = 2 /\ p \in SeqPaths

\* ------------------------------------- the watcher callback in full
\* lines 194-216: the closure receives notify::Result<Event>; the consumer is
\* the one of Spec.

\* event.kind: the kind the callback looks for and some others
EventKinds == {"Access(Close(Write))", "Access(Open)", "Modify(Data)"}

\* what Cache::is_ignored does for a path: it returns true or false, or git
\* cannot be executed and .expect panics (line 108)
Outcomes == {"ignored", "not ignored", "no git"}

\* event.paths, each path given by what is_ignored does for it; the paths
\* after one that makes is_ignored panic are never looked at and are left out
PathLists ==
    {l \in UNION {[1..n -> Outcomes] : n \in 0..MaxEventPaths} :
        \A i \in 1..(Len(l) - 1) : l[i] # "no git"}

\* the callback's argument: Err(error), or Ok(event) with a kind and paths
Results ==
    {[ok |-> FALSE, kind |-> "none", paths |-> <<>>]}
    \cup {[ok |-> TRUE, kind |-> k, paths |-> l] : k \in EventKinds, l \in PathLists}

\* lines 200-205: monitored is set for Access(Close(Write)) only
is_monitored_any(kind) == TRUE
is_monitored(kind) == kind = "Access(Close(Write))"

\* lines 63-65: is_actionable is !is_ignored
is_actionable(ignored) == ~ignored

\* a panic unwinds the thread it happens in or aborts the process, as the
\* build's panic strategy says
PanicStrategies == {"unwind", "abort"}

\* number of paths reported not ignored before is_ignored panics, if it does
RECURSIVE NotIgnoredPaths(_)
NotIgnoredPaths(paths) ==
    IF paths = <<>> \/ Head(paths) = "no git" THEN 0
    ELSE (IF Head(paths) = "not ignored" THEN 1 ELSE 0)
         + NotIgnoredPaths(Tail(paths))

\* increments the event calls for: one per path reported not ignored of an
\* Ok event of kind Access(Close(Write))
Due(result) ==
    IF result.ok /\ result.kind = "Access(Close(Write))"
    THEN NotIgnoredPaths(result.paths) ELSE 0

\* lines 194-207: the watcher thread calls the closure with an event; the for
\* loop is entered for an Ok event of the monitored kind
Deliver(result) ==
    /\ Running
    /\ ppc = "idle"
    /\ pending = <<>>
    /\ expected + Due(result) <= MaxActionable
    /\ pending' = IF result.ok /\ is_monitored(result.kind)
                  THEN result.paths ELSE <<>>
    /\ expected' = expected + Due(result)
    /\ discarded' = (discarded \/ ~result.ok
                               \/ result.kind # "Access(Close(Write))"
                               \/ \E i \in 1..Len(result.paths) :
                                     result.paths[i] = "ignored")
    /\ UNCHANGED dvars
    /\ UNCHANGED cvars
    /\ UNCHANGED hvars

\* lines 208-213: is_actionable(path) is false, the loop goes to the next path
PathIgnored ==
    /\ Running
    /\ ppc = "idle"
    /\ pending # <<>>
    /\ Head(pending) # "no git"
    /\ ~is_actionable(Head(pending) = "ignored")
    /\ pending' = Tail(pending)
    /\ UNCHANGED <<expected, discarded>>
    /\ UNCHANGED dvars
    /\ UNCHANGED cvars
    /\ UNCHANGED hvars

\* lines 208-210: is_actionable(path) is true, the callback is about to lock
\* the mutex
PathActionable ==
    /\ Running
    /\ ppc = "idle"
    /\ pending # <<>>
    /\ Head(pending) # "no git"
    /\ is_actionable(Head(pending) = "ignored")
    /\ pending' = Tail(pending)
    /\ ppc' = "lock"
    /\ UNCHANGED <<counter, lock, prev, pc, timedOut, timer, oneshot, cmdExists,
                   spurious, fireLog, sinceInc, burst, apart, late, incInWindow,
                   lostAtStart, nonzero>>
    /\ UNCHANGED <<expected, discarded>>
    /\ UNCHANGED cvars
    /\ UNCHANGED hvars

\* lines 101-108 inside line 209: git cannot be executed and .expect panics in
\* the watcher's thread, outside the mutex.  Unwinding ends that thread alone
\* and main goes on; aborting ends the process.
OracleFailure ==
    /\ Running
    /\ ppc = "idle"
    /\ pending # <<>>
    /\ Head(pending) = "no git"
    /\ pending' = <<>>
    /\ ppc' = "panicked"
    /\ \E strategy \in PanicStrategies :
          IF strategy = "abort"
          THEN pc' = "aborted" /\ lock' = "free"
          ELSE UNCHANGED <<pc, lock>>
    /\ UNCHANGED <<counter, prev, timedOut, timer, oneshot, cmdExists,
                   spurious, fireLog, sinceInc, burst, apart, late, incInWindow,
                   lostAtStart, nonzero>>
    /\ UNCHANGED <<expected, discarded>>
    /\ UNCHANGED cvars
    /\ UNCHANGED hvars

FilterNext ==
    \/ \E result \in Results : Deliver(result)
    \/ PathIgnored
    \/ PathActionable
    \/ OracleFailure
    \/ ProducerIncrement
    \/ ProducerNotify
    \/ ConsumerStart
    \/ SpuriousWake
    \/ WaitReturn
    \/ SettleTimeout
    \/ SettleReturn
    \/ CommandReturn
    \/ Tick

SpecFilter == Init /\ [][FilterNext]_vars

\* --------------------------------------------- watcher callback: claims

\* C15 (oracle failure is fatal): once git check-ignore could not be executed
\* the run has been aborted: main is not in the consumer loop any more, so it
\* neither stays blocked waiting for events nor fires a trigger later.
C15_OracleFailureFatal ==
    ppc = "panicked" =>
        pc \notin {"wait", "wait_relock", "settle", "settle_relock", "running"}

\* C18 (change filter): the counter never exceeds the number of paths of Ok
\* Access(Close(Write)) events that the cache reported not ignored, and
\* equals it whenever the callback has returned, so every such path was
\* counted once and nothing else was; with no such path there is no trigger.
C18_ChangeFilter ==
    /\ counter <= expected
    /\ (ppc \in {"idle", "panicked"} /\ pending = <<>>) => counter = expected
    /\ expected = 0 => (counter = 0 /\ fires = 0)

\* events and paths were filtered out, two paths were counted and a trigger
\* fired
C18_Witness ==
    /\ discarded
    /\ ppc = "idle" /\ pending = <<>>
    /\ counter = 2 /\ expected = 2
    /\ fires >= 1

\* ------------------------------------------- Command outcomes: claims

\* C16 (not-found is fatal): when the configured command cannot be spawned,
\* the first trigger is the last: main is either still inside that
\* run_command call or has left the loop with the error; there is no further
\* wait, settle window or trigger, with or without one-shot mode.
C16_NotFoundFatal ==
    /\ ~cmdExists =>
          /\ fires <= 1
          /\ fires = 1 => pc \in {"running", "failed"}
    /\ pc = "failed" => (~cmdExists /\ fires = 1 /\ prev # counter)

\* outside one-shot mode the loop has ended with the error at the first trigger
C16_Witness == ~cmdExists /\ ~oneshot /\ pc = "failed" /\ fires = 1

\* C17 (nonzero exit is not fatal): once the command has run and exited
\* nonzero, main has not left the loop with an error, prev has caught up with
\* the counter value of the last finished invocation, and no invocation was a
\* retry: every trigger saw a larger counter than the one before it.
C17_NonzeroExitNotFatal ==
    nonzero =>
        /\ pc # "failed"
        /\ \A i \in 1..(fires - 1) : fireLog[i] < fireLog[i + 1]
        /\ pc # "running" => prev >= fireLog[fires]
        /\ pc = "running" => prev >= fireLog[fires - 1]

\* after a nonzero exit a later settled burst has triggered the command again
C17_Witness == nonzero /\ ~oneshot /\ fires = 2 /\ pc = "running"

\* ------------------------------------------------------------------ chop
\* src/chop/src/main.rs.  A string is the sequence of its graphemes; offsets
\* and lengths are in bytes, as str::len and grapheme_indices give them.

\* line 95: the width assumed when the terminal's size is unknown
DefaultColumns == 80
\* lines 29 and 75: default of --update, in seconds
DefaultUpdate == 2
\* line 75: 1e9
NanosPerSecond == 1000000000

\* graphemes of the input other than whitespace: a letter, the delimiter
\* character, and a wide character (3 bytes of UTF-8, 2 columns)
Graphemes == {"a", "-", "W"}

\* str::len of a grapheme
Bytes(g) == IF g = "W" THEN 3 ELSE 1

\* UnicodeWidthStr::width of a grapheme
Width(g) == IF g = "W" THEN 2 ELSE 1

\* the lines read_line can deliver, without the line terminator: up to
\* MaxLineLen graphemes, with or without a trailing blank
Lines ==
    LET words == UNION {[1..n -> Graphemes] : n \in 0..MaxLineLen}
    IN words \cup {Append(t, " ") : t \in words}

\* what get_termsize returns: None, or Some(size) with size.cols
Terms == {None} \cup (0..MaxColumns)

\* results of writeln! and flush (lines 163-174)
WriteResults == {"Ok", "BrokenPipe", "Err"}

\* usize arithmetic wraps modulo 2^UsizeBits when overflow is not checked
Wrap(n) == n % (2 ^ UsizeBits)

\* str::len
RECURSIVE ByteLen(_)
ByteLen(t) == IF t = <<>> THEN 0 ELSE Bytes(Head(t)) + ByteLen(Tail(t))

\* line 158: str::trim_end (the line terminator is whitespace too)
RECURSIVE trim_end(_)
trim_end(t) ==
    IF t # <<>> /\ t[Len(t)] = " " THEN trim_end(SubSeq(t, 1, Len(t) - 1))
    ELSE t

\* line 124: c_idx of the i-th grapheme
Offset(t, i) == ByteLen(SubSeq(t, 1, i - 1))

\* str::is_char_boundary: slicing elsewhere panics (lines 161 and 177)
IsBoundary(t, n) == \E i \in 0..Len(t) : ByteLen(SubSeq(t, 1, i)) = n

\* number of graphemes in the first n bytes
Count(t, n) == CHOOSE i \in 0..Len(t) : ByteLen(SubSeq(t, 1, i)) = n

\* line 161: &s[..n]
Upto(t, n) == SubSeq(t, 1, Count(t, n))

\* line 177: &s[n..]
From(t, n) == SubSeq(t, Count(t, n) + 1, Len(t))

\* lines 122-136: the for loop of get_end from the i-th grapheme on
RECURSIVE Scan(_, _, _, _, _, _)
Scan(t, i, col, trial, lim, delim) ==
    IF i > Len(t) \/ col > lim THEN trial
    ELSE Scan(t, i + 1, col + Width(t[i]),
              IF delim # NoDelimiter /\ t[i] = delim THEN Offset(t, i)
              ELSE trial,
              lim, delim)

\* lines 112-139
get_end(t, lim, delim) ==
    LET s_len == ByteLen(t) IN
    IF s_len < lim THEN s_len
    ELSE Min(s_len, Scan(t, 1, 0, Min(lim, s_len), lim, delim))

\* line 75: nanos = (config.update.unwrap_or(2.0) / 1e9) as u64
Nanos(update) == update \div NanosPerSecond

\* lines 48-60: TimedCache::get; delta is a whole number of seconds here
cache_get ==
    IF hclock >= tc_prev
          /\ hclock - tc_prev <= Nanos(DefaultUpdate) \div NanosPerSecond
    THEN tc_value ELSE None

\* lines 83-109: get_limit when get_termsize returns term.  set: the cache is
\* written (line 92); panic: the subtraction overflows in a build that checks
\* it; otherwise it wraps
get_limit(term) ==
    LET cached == IF columns = None THEN cache_get ELSE None
        default == IF columns # None THEN columns
                   ELSE IF cached # None THEN cached
                   ELSE IF term # None THEN term
                   ELSE DefaultColumns
        offs == IF offset = None THEN 0 ELSE offset
    IN [default |-> default,
        set |-> (columns = None /\ cached = None /\ term # None),
        panic |-> (multiple \notin {None, 0} /\ default < offs /\ debug),
        limit |-> IF multiple \in {None, 0} THEN default
                  ELSE Wrap((Wrap(default - offs) \div multiple) * multiple
                            + offs)]

\* chop at the start of run, for every configuration and build
ChopInit ==
    /\ DStart
    /\ oneshot = FALSE
    /\ cmdExists = TRUE
    /\ CStart
    /\ size = 1
    /\ age = 1
    /\ FStart
    /\ HRun
    /\ wrap \in BOOLEAN
    /\ columns \in {None} \cup (0..MaxColumns)
    /\ delimiter \in {NoDelimiter, "-"}
    /\ multiple \in {None} \cup (0..MaxMultiple)
    /\ offset \in {None} \cup (1..MaxOffset)
    /\ debug \in BOOLEAN

\* lines 150-159: read_line delivers a line; the while loop is entered unless
\* the trimmed line is empty
ReadLine(l) ==
    /\ hpc = "read"
    /\ s' = trim_end(l)
    /\ hpc' = IF trim_end(l) = <<>> THEN "eol" ELSE "chop"
    /\ UNCHANGED <<wrap, columns, delimiter, multiple, offset, debug, tc_value,
                   tc_prev, hclock, limit, deflt, before, chunk, nchunks>>
    /\ UNCHANGED <<dvars, cvars, fvars>>

\* lines 150-156: read_line returns 0 at the end of the input
Eof ==
    /\ hpc = "read"
    /\ hpc' = "done"
    /\ UNCHANGED <<wrap, columns, delimiter, multiple, offset, debug, tc_value,
                   tc_prev, hclock, s, limit, deflt, before, chunk, nchunks>>
    /\ UNCHANGED <<dvars, cvars, fvars>>

\* lines 159-181: one iteration of the while loop: get_limit, get_end, the
\* slice, writeln! and flush with result w, then the rest of the line (wrap)
\* or the next line
Iterate(term, w) ==
    /\ hpc = "chop"
    /\ nchunks < MaxChunks
    /\ LET r == get_limit(term)
           end == get_end(s, r.limit, delimiter)
       IN /\ deflt' = r.default
          /\ tc_value' = IF r.set THEN term ELSE tc_value
          /\ tc_prev' = IF r.set THEN hclock ELSE tc_prev
          /\ before' = s
          /\ IF r.panic
             THEN /\ hpc' = "overflow"
                  /\ UNCHANGED <<s, limit, chunk, nchunks>>
             ELSE /\ limit' = r.limit
                  /\ IF ~IsBoundary(s, end)
                     THEN /\ hpc' = "slice_panic"
                          /\ UNCHANGED <<s, chunk, nchunks>>
                     ELSE /\ chunk' = Upto(s, end)
                          /\ IF w = "Ok"
                             THEN /\ nchunks' = nchunks + 1
                                  /\ s' = IF wrap THEN From(s, end) ELSE <<>>
                                  /\ hpc' = IF wrap /\ From(s, end) # <<>>
                                            THEN "chop" ELSE "eol"
                             ELSE /\ hpc' = IF w = "BrokenPipe" THEN "done"
                                            ELSE "failed"
                                  /\ UNCHANGED <<s, nchunks>>
    /\ UNCHANGED <<wrap, columns, delimiter, multiple, offset, debug, hclock>>
    /\ UNCHANGED <<dvars, cvars, fvars>>

\* lines 147-149: the while loop has ended, the outer loop goes round and
\* clears the buffer.  The observations start afresh with the next line.
NextLine ==
    /\ hpc = "eol"
    /\ hpc' = "read"
    /\ s' = <<>>
    /\ nchunks' = 0
    /\ limit' = 0
    /\ deflt' = 0
    /\ before' = <<>>
    /\ chunk' = <<>>
    /\ UNCHANGED <<wrap, columns, delimiter, multiple, offset, debug, tc_value,
                   tc_prev, hclock>>
    /\ UNCHANGED <<dvars, cvars, fvars>>

\* a second passes; the clock is read by TimedCache::get and set only, which
\* are not called when --columns is given
ChopTick ==
    /\ hpc \in {"read", "chop", "eol"}
    /\ columns = None
    /\ hclock < MaxChopClock
    /\ hclock' = hclock + 1
    /\ UNCHANGED <<wrap, columns, delimiter, multiple, offset, debug, tc_value,
                   tc_prev, s, hpc, limit, deflt, before, chunk, nchunks>>
    /\ UNCHANGED <<dvars, cvars, fvars>>

ChopNext ==
    \/ \E l \in Lines : ReadLine(l)
    \/ Eof
    \/ \E term \in Terms, w \in WriteResults : Iterate(term, w)
    \/ NextLine
    \/ ChopTick

SpecChop == ChopInit /\ [][ChopNext]_vars

\* ------------------------------------------------------------ chop: claims

\* the last iteration wrote a chunk
Wrote == nchunks >= 1 /\ hpc \in {"eol", "chop"}

\* positions of the delimiter among the first n graphemes of t
DelimitersWithin(t, n) == {i \in 1..Min(n, Len(t)) : t[i] = delimiter}

\* C19 (delimiter cut): with a delimiter configured, a line of one-column
\* one-byte characters longer than the limit and not starting with the
\* delimiter is cut immediately after the last delimiter within the limit
\* (the chunk ends with it) or, with no delimiter there, at the limit; in wrap
\* mode the next chunk starts right after the cut.
C19_DelimiterCut ==
    (/\ Wrote
     /\ delimiter # NoDelimiter
     /\ "W" \notin {before[i] : i \in 1..Len(before)}
     /\ Len(before) > limit
     /\ limit >= 1
     /\ before[1] # delimiter) =>
        LET within == DelimitersWithin(before, limit)
            cut == IF within = {} THEN limit
                   ELSE CHOOSE i \in within : \A j \in within : j <= i
        IN /\ chunk = SubSeq(before, 1, cut)
           /\ wrap => s = SubSeq(before, cut + 1, Len(before))

\* C20 (greatest multiple): once get_limit has been called, it has not
\* overflowed; with --multiple m > 0 and offset o the limit is the greatest
\* k*m + o (k >= 0) not above the width L, and with m = 0 or no --multiple it
\* is L.
C20_MultipleLimit ==
    before # <<>> =>
        /\ hpc # "overflow"
        /\ IF multiple \in {None, 0} THEN limit = deflt
           ELSE LET o == IF offset = None THEN 0 ELSE offset IN
                /\ limit <= deflt
                /\ \E k \in 0..deflt : limit = k * multiple + o
                /\ limit + multiple > deflt

\* C21 (truncation without wrap): without --wrap and --delimiter, once run is
\* through with a line (every write having succeeded) it has written exactly
\* one chunk for it, the first `limit` characters of the trimmed line, or the
\* whole trimmed line if it has no more than `limit` characters; slicing the
\* line does not panic.
C21_OneLinePerLine ==
    (~wrap /\ delimiter = NoDelimiter) =>
        /\ hpc # "slice_panic"
        /\ hpc = "eol" =>
              /\ nchunks = 1
              /\ chunk = SubSeq(before, 1, Min(limit, Len(before)))


\* lines 86-89: the get_limit call made in this state asks the terminal for its
\* size: --columns is not given and TimedCache::get returns None
QueriesTerminal == columns = None /\ cache_get = None

\* line 92 has run: TimedCache::set has stored a width read from the terminal
Refreshed == tc_prev # 0

\* C22 (terminal-width cache): without --columns, a get_limit call made less
\* than `update` (2) seconds after the last refresh of the cache does not query
\* the terminal, and a call made later than that does.
C22_CacheReuse ==
    [][(hpc = "chop" /\ hclock' = hclock /\ columns = None /\ Refreshed) =>
          /\ hclock - tc_prev < DefaultUpdate => ~QueriesTerminal
          /\ hclock - tc_prev > DefaultUpdate => QueriesTerminal]_vars


\* C24 (wrap terminates): in wrap mode, for every limit and every position of
\* the delimiter, get_end returns a value > 0 for a non-empty remainder: an
\* iteration of the per-line loop that has written its chunk has consumed at
\* least one character of the remainder it started with, so the loop ends.
C24_WrapProgress ==
    (wrap /\ Wrote) => (chunk # <<>> /\ Len(s) < Len(before))

====
